---------------------------- MODULE Spec2Model ----------------------------
(***************************************************************************)
(* Model of the Rivo backend (backend/app): the request guards, the        *)
(* property / property-image / user endpoints and the relational state     *)
(* they read and write.                                                    *)
(*                                                                         *)
(* One action is one HTTP request handled to completion: the security      *)
(* dependency, the body validation, the handler and its commit.  The       *)
(* response of the last request is kept in `resp`.  The specification      *)
(* SpecConc runs upload_property_image as interleaved steps of several     *)
(* database sessions instead.                                              *)
(*                                                                         *)
(* Collaborators outside the handlers (object storage, the JWT library,    *)
(* FastAPI's security classes) are modelled by what the call sites rely    *)
(* on: HTTPBearer() rejects a request without credentials with 403,        *)
(* OAuth2PasswordBearer with 401, jwt.decode raises JWTError on a bad      *)
(* signature and on an `exp` in the past.                                  *)
(***************************************************************************)
EXTENDS Integers, FiniteSets, Sequences, TLC

VARIABLES
    users,              \* rows of table "users"
    properties,         \* rows of table "properties"
    images,             \* rows of table "property_images"
    nextPropertyId,     \* how many property ids were handed out
    nextImageId,        \* how many image ids were handed out
    storage,            \* object keys written to the bucket
    now,                \* the clock jwt.decode compares `exp` with
    lastPrimaryUpload,  \* per property: image made by the latest is_primary upload
    resp,               \* the response of the last request
    sess,               \* per database session: an upload in progress
    voice_settings      \* table voice_settings

vars == << users, properties, images, nextPropertyId, nextImageId, storage,
           now, lastPrimaryUpload, resp, sess, voice_settings >>

----------------------------------------------------------------------------
(* Bounds of the model *)

MaxProperties == 2
MaxImages == 3
MaxTime == 1
NumSessions == 2

(* HTTP status codes *)

HTTP_200_OK == 200
HTTP_204_NO_CONTENT == 204
HTTP_401_UNAUTHORIZED == 401
HTTP_403_FORBIDDEN == 403
HTTP_404_NOT_FOUND == 404

PropertyIds == 1..MaxProperties
Sessions == 1..NumSessions

----------------------------------------------------------------------------
(* Bearer credentials *)

SUPABASE_JWT_SECRET == "SUPABASE_JWT_SECRET"
jwt_secret_key == "jwt_secret_key"
OtherSecret == "other"

NoCredentials == [kind |-> "none", key |-> "", sub |-> "", has_exp |-> FALSE, exp |-> 0]

Token(key, sub, has_exp, exp) ==
    [kind |-> "bearer", key |-> key, sub |-> sub, has_exp |-> has_exp, exp |-> exp]

\* The credentials a request may carry: none, tokens signed with the Supabase
\* secret (for the subject of each stored user and for a subject no user has;
\* one expiring at time 0 and one without exp), tokens signed with the local
\* secret (for a stored user's id and for an id no user has), and a token
\* signed with neither.
Credentials ==
    {NoCredentials}
    \cup {Token(SUPABASE_JWT_SECRET, s, TRUE, MaxTime) : s \in {"sb1", "sb2", "sb9"}}
    \cup {Token(SUPABASE_JWT_SECRET, "sb1", TRUE, 0),
          Token(SUPABASE_JWT_SECRET, "sb1", FALSE, 0)}
    \cup {Token(jwt_secret_key, s, TRUE, MaxTime) : s \in {"u1", "u9"}}
    \cup {Token(OtherSecret, "sb1", TRUE, MaxTime)}

\* jose.jwt.decode: the signature must verify under `key`; an `exp` claim, when
\* present, must not lie in the past.  JWTError otherwise.
JwtDecodeOk(cred, key, t) ==
    /\ cred.key = key
    /\ (cred.has_exp => cred.exp >= t)

Reply(status, detail) == [status |-> status, detail |-> detail, body |-> {}]

Ok(body) == [status |-> HTTP_200_OK, detail |-> "", body |-> body]

\* HTTPBearer() with auto_error: a request without credentials never reaches
\* the dependency's body.
HTTPBearerMissing == Reply(HTTP_403_FORBIDDEN, "Not authenticated")

\* services/supabase.py get_current_user: the guard of the users, properties
\* and voice routers.  Yields status 200 and the token's sub, or the failure.
SupabaseGuard(cred, t) ==
    IF cred.kind = "none" THEN HTTPBearerMissing
    ELSE IF ~JwtDecodeOk(cred, SUPABASE_JWT_SECRET, t)
        THEN Reply(HTTP_401_UNAUTHORIZED, "Could not validate credentials")
    ELSE IF ~cred.has_exp
        THEN Reply(HTTP_401_UNAUTHORIZED, "Token has no expiration")
    ELSE Ok({cred.sub})

\* select(User).where(User.supabase_id == current_user.id) ... .first()
UsersBySupabaseId(sub) == {u \in users : u.supabase_id = sub}

\* select(User).where(User.id == user_id) ... .first()
UsersById(id) == {u \in users : u.id = id}

\* A verification that checks the signature and not the expiry
verify_token_signature_only(cred, t) == cred.key = jwt_secret_key

\* core/security.py verify_token: the payload, or None
verify_token(cred, t) == JwtDecodeOk(cred, jwt_secret_key, t)

UserNotFoundDetail == "User not found"

\* api/endpoints/auth.py get_current_user: the guard of GET /auth/me.
\* OAuth2PasswordBearer answers 401 when the header is missing.
JwtGuard(cred, t) ==
    IF cred.kind = "none" THEN Reply(HTTP_401_UNAUTHORIZED, "Not authenticated")
    ELSE IF ~verify_token(cred, t)
        THEN Reply(HTTP_401_UNAUTHORIZED, "Invalid authentication credentials")
    ELSE IF cred.sub = ""
        THEN Reply(HTTP_401_UNAUTHORIZED, "Invalid token payload")
    ELSE IF UsersById(cred.sub) = {}
        THEN Reply(HTTP_404_NOT_FOUND, UserNotFoundDetail)
    ELSE Ok({cred.sub})

----------------------------------------------------------------------------
(* Rows *)

\* Users that exist before any request: rows with a supabase_id, as the
\* tests insert them.  No endpoint of this revision sets supabase_id.  A
\* nullable column that holds NULL is written "".
SeedUsers ==
    { [id |-> "u1", email |-> "ann@example.com", supabase_id |-> "sb1",
       full_name |-> "Ann", is_active |-> TRUE,
       hashed_password |-> "", auth_provider |-> "email", google_id |-> "",
       created_at |-> 0],
      [id |-> "u2", email |-> "bob@example.com", supabase_id |-> "sb2",
       full_name |-> "Bob", is_active |-> TRUE,
       hashed_password |-> "", auth_provider |-> "email", google_id |-> "",
       created_at |-> 0] }

PropertyById(pid) == {p \in properties : p.id = pid}

ImagesOf(pid) == {i \in images : i.property_id = pid}

PrimaryImagesOf(pid) == {i \in ImagesOf(pid) : i.is_primary}


\* The category strings a request may carry, and str.lower() on them.
InputCategories == {"house", "Land", "spaceship"}

Lower(s) ==
    CASE s = "house" -> "house"
      [] s = "Apartment" -> "apartment"
      [] s = "Land" -> "land"
      [] s = "spaceship" -> "spaceship"

allowed_categories ==
    {"residential", "commercial", "land", "industrial", "apartment", "house",
     "condo", "townhouse", "other"}

\* validate_category with the membership test dropped
CategoryAllowedAlways(v) == TRUE

\* schemas/property.py validate_category (PropertyCreate and PropertyUpdate)
CategoryAllowed(v) == Lower(v) \in allowed_categories

\* PropertyCreate bodies: of the fields, the model keeps category and
\* is_published.
PropertyCreates == [category : InputCategories, is_published : BOOLEAN]

\* PropertyUpdate bodies: `fields` are the fields the request sets
\* (model_dump(exclude_unset=True)); a field it does not set carries the
\* schema's default and is not read.
PropertyUpdates ==
    {d \in [fields : SUBSET {"category", "is_published"},
            category : InputCategories \cup {""}, is_published : BOOLEAN] :
        /\ ("category" \in d.fields) = (d.category # "")
        /\ ("is_published" \notin d.fields => ~d.is_published)}

\* UserUpdate bodies
UserUpdates ==
    {d \in [fields : SUBSET {"full_name", "is_active"},
            full_name : {"Zed", ""}, is_active : BOOLEAN] :
        /\ ("full_name" \in d.fields) = (d.full_name # "")
        /\ ("is_active" \notin d.fields => ~d.is_active)}

ValidationError == Reply(422, "validation error")

\* An exception no handler catches: Starlette answers 500
InternalServerError == Reply(500, "Internal Server Error")

\* What is kept of a request and its response: the operation, the credentials
\* it carried, the time it was made, the property or user id of its path, and
\* the status, detail and ids of the rows in the body.
Response(op, cred, property_id, user_id, r) ==
    [op |-> op, cred |-> cred, time |-> now,
     property_id |-> property_id, user_id |-> user_id,
     status |-> r.status, detail |-> r.detail, body |-> r.body]

NoResponse == Response("none", NoCredentials, 0, "", Reply(0, ""))

\* A database session that handles no upload
IdleSession == [pc |-> "idle", cred |-> NoCredentials, property_id |-> 0,
                is_primary |-> FALSE, storage_path |-> << >>,
                existing_images |-> {}, dirty |-> {}]

db == << users, properties, images, nextPropertyId, nextImageId, storage,
         lastPrimaryUpload, voice_settings >>

----------------------------------------------------------------------------
(* The state after start-up: init_db seeds nothing *)

Init ==
    /\ users = SeedUsers
    /\ properties = {}
    /\ images = {}
    /\ nextPropertyId = 0
    /\ voice_settings = {}
    /\ nextImageId = 0
    /\ storage = {}
    /\ now = 0
    /\ lastPrimaryUpload = [p \in PropertyIds |-> 0]
    /\ resp = NoResponse
    /\ sess = [s \in Sessions |-> IdleSession]

----------------------------------------------------------------------------
(* POST /properties/ *)

create_property(cred, data) ==
    LET g == SupabaseGuard(cred, now)
        db_user == UsersBySupabaseId(cred.sub)
        id == nextPropertyId + 1
    IN  /\ IF g.status # HTTP_200_OK
             THEN /\ resp' = Response("create_property", cred, 0, "", g)
                  /\ UNCHANGED db
           ELSE IF ~CategoryAllowed(data.category)
             THEN /\ resp' = Response("create_property", cred, 0, "", ValidationError)
                  /\ UNCHANGED db
           ELSE IF db_user = {}
             THEN /\ resp' = Response("create_property", cred, 0, "",
                                Reply(HTTP_404_NOT_FOUND, "User not found in database"))
                  /\ UNCHANGED db
           ELSE /\ properties' = properties \cup
                       {[id |-> id,
                         user_id |-> (CHOOSE u \in db_user : TRUE).id,
                         category |-> Lower(data.category),
                         is_published |-> data.is_published]}
                /\ nextPropertyId' = id
                /\ resp' = Response("create_property", cred, 0, "", Ok({id}))
                /\ UNCHANGED << voice_settings, users, images, nextImageId, storage, lastPrimaryUpload >>
        /\ UNCHANGED << now, sess >>

(* GET /properties/ *)

\* .where(Property.is_published == True)
PublishedOnlyDropped(rows) == rows

PublishedOnly(rows) == {p \in rows : p.is_published = TRUE}

\* `if category: query = query.where(Property.category == category)`
Filtered(rows, category) ==
    {p \in rows : category # "" => p.category = category}

\* query.offset(skip).limit(limit) on a query without ORDER BY: the database
\* yields the matching rows in an order of its choosing, so a page is any
\* set of matching rows of the size the offset and the limit leave
Page(rows, skip, limit) ==
    LET left == IF Cardinality(rows) > skip THEN Cardinality(rows) - skip ELSE 0
        size == IF left < limit THEN left ELSE limit
    IN  {page \in SUBSET rows : Cardinality(page) = size}

\* The category filter of a list request ("" when the parameter is absent)
ListCategories == {"", "house", "land"}

get_properties(cred, f, skip, limit) ==
    LET g == SupabaseGuard(cred, now)
    IN  /\ IF g.status # HTTP_200_OK
             THEN resp' = Response("get_properties", cred, 0, "", g)
             ELSE \E rows \in Page(Filtered(PublishedOnly(properties), f), skip, limit) :
                    resp' = Response("get_properties", cred, 0, "", Ok({p.id : p \in rows}))
        /\ UNCHANGED << db, now, sess >>

(* GET /properties/{property_id} *)

\* properties.py 197-217: an unpublished property is for its owner only
MayViewAnyone(prop, cred) == TRUE

MayView(prop, cred) ==
    \/ prop.is_published
    \/ /\ cred.kind # "none"
       /\ \E u \in UsersBySupabaseId(cred.sub) : prop.user_id = u.id

get_property(cred, pid) ==
    LET g == SupabaseGuard(cred, now)
        found == PropertyById(pid)
    IN  /\ IF g.status # HTTP_200_OK
             THEN resp' = Response("get_property", cred, pid, "", g)
           ELSE IF found = {}
             THEN resp' = Response("get_property", cred, pid, "",
                              Reply(HTTP_404_NOT_FOUND, "Property not found"))
           ELSE IF ~MayView(CHOOSE p \in found : TRUE, cred)
             THEN resp' = Response("get_property", cred, pid, "",
                              Reply(HTTP_403_FORBIDDEN, "Property is not published"))
           ELSE resp' = Response("get_property", cred, pid, "", Ok({pid}))
        /\ UNCHANGED << db, now, sess >>

(* PUT /properties/{property_id} *)

\* properties.py 280, 348, 423: property.user_id != db_user.id
OwnsAlways(prop, db_user) == TRUE

Owns(prop, db_user) == prop.user_id = db_user.id

\* model_dump() without exclude_unset: every field of the schema is written
PatchedAll(row, data, fieldNames) ==
    [f \in DOMAIN row |->
        IF f \in fieldNames
        THEN (IF f = "category" /\ data[f] # "" THEN Lower(data[f]) ELSE data[f])
        ELSE row[f]]

\* for field, value in update_data.items(): setattr(property, field, value)
Patched(row, data, fieldNames) ==
    [f \in DOMAIN row |->
        IF f \in data.fields \cap fieldNames
        THEN (IF f = "category" THEN Lower(data[f]) ELSE data[f])
        ELSE row[f]]

update_property(cred, pid, data) ==
    LET g == SupabaseGuard(cred, now)
        db_user == UsersBySupabaseId(cred.sub)
        found == PropertyById(pid)
        prop == CHOOSE p \in found : TRUE
    IN  /\ IF g.status # HTTP_200_OK
             THEN /\ resp' = Response("update_property", cred, pid, "", g)
                  /\ UNCHANGED db
           ELSE IF /\ "category" \in data.fields /\ data.category # ""
                   /\ ~CategoryAllowed(data.category)
             THEN /\ resp' = Response("update_property", cred, pid, "", ValidationError)
                  /\ UNCHANGED db
           ELSE IF db_user = {}
             THEN /\ resp' = Response("update_property", cred, pid, "",
                                Reply(HTTP_404_NOT_FOUND, "User not found in database"))
                  /\ UNCHANGED db
           ELSE IF found = {}
             THEN /\ resp' = Response("update_property", cred, pid, "",
                                Reply(HTTP_404_NOT_FOUND, "Property not found"))
                  /\ UNCHANGED db
           ELSE IF ~Owns(prop, CHOOSE u \in db_user : TRUE)
             THEN /\ resp' = Response("update_property", cred, pid, "",
                                Reply(HTTP_403_FORBIDDEN,
                                      "Not authorized to update this property"))
                  /\ UNCHANGED db
           ELSE IF "category" \in data.fields /\ data.category = ""
             \* category is NOT NULL (models/property.py 64): the commit raises
             THEN /\ resp' = Response("update_property", cred, pid, "",
                                InternalServerError)
                  /\ UNCHANGED db
           ELSE /\ properties' = (properties \ {prop}) \cup
                       {Patched(prop, data, {"category", "is_published"})}
                /\ resp' = Response("update_property", cred, pid, "", Ok({pid}))
                /\ UNCHANGED << voice_settings, users, images, nextPropertyId, nextImageId, storage,
                                lastPrimaryUpload >>
        /\ UNCHANGED << now, sess >>

(* DELETE /properties/{property_id} *)

\* the delete without the cascade to the images
ImagesKept(rows, pid) == rows

\* models/property.py 86-90, cascade="all, delete-orphan": the image rows
\* left when those of property pid are deleted with it
WithoutImagesOf(rows, pid) == {i \in rows : i.property_id # pid}

delete_property(cred, pid) ==
    LET g == SupabaseGuard(cred, now)
        db_user == UsersBySupabaseId(cred.sub)
        found == PropertyById(pid)
        prop == CHOOSE p \in found : TRUE
    IN  /\ IF g.status # HTTP_200_OK
             THEN /\ resp' = Response("delete_property", cred, pid, "", g)
                  /\ UNCHANGED db
           ELSE IF db_user = {}
             THEN /\ resp' = Response("delete_property", cred, pid, "",
                                Reply(HTTP_404_NOT_FOUND, "User not found in database"))
                  /\ UNCHANGED db
           ELSE IF found = {}
             THEN /\ resp' = Response("delete_property", cred, pid, "",
                                Reply(HTTP_404_NOT_FOUND, "Property not found"))
                  /\ UNCHANGED db
           ELSE IF ~Owns(prop, CHOOSE u \in db_user : TRUE)
             THEN /\ resp' = Response("delete_property", cred, pid, "",
                                Reply(HTTP_403_FORBIDDEN,
                                      "Not authorized to delete this property"))
                  /\ UNCHANGED db
           ELSE \* cascade="all, delete-orphan" on Property.images
                /\ properties' = properties \ {prop}
                /\ images' = WithoutImagesOf(images, pid)
                /\ resp' = Response("delete_property", cred, pid, "",
                                    Reply(HTTP_204_NO_CONTENT, ""))
                /\ UNCHANGED << voice_settings, users, nextPropertyId, nextImageId, storage,
                                lastPrimaryUpload >>
        /\ UNCHANGED << now, sess >>

(* POST /properties/{property_id}/images *)

Filenames == {"front.jpg"}

\* storage_path = f"properties/{property_id}/{file.filename}"
StoragePath(pid, filename) == << "properties", pid, filename >>

\* properties.py 442-451: the rows as the session holds them once every
\* selected image of the property was set to non-primary
SiblingsKept(rows, pid) == rows

SiblingsOfAllCleared(rows, pid) == {[i EXCEPT !.is_primary = FALSE] : i \in rows}

SiblingsCleared(rows, pid) ==
    {IF i.property_id = pid THEN [i EXCEPT !.is_primary = FALSE] ELSE i : i \in rows}


\* storage_service.upload_file(file, storage_path) returns the public URL
UrlOf(storage_path) == << "url", storage_path >>

\* What openai_service.generate_image_description(url) does: it returns a
\* text or raises.
CaptioningOutcomes == {"raise", "A bright living room."}

\* a failed captioning stored as a fallback text
ai_description_fallback(outcome) ==
    IF outcome = "raise" THEN "No description available." ELSE outcome

\* properties.py 434-439: except Exception: ai_description = None
ai_description(outcome) == IF outcome = "raise" THEN "" ELSE outcome

\* properties.py 454-461: PropertyImage(...)
NewImage(id, pid, storage_path, caption, is_primary, ai) ==
    [id |-> id, property_id |-> pid, storage_path |-> storage_path,
     url |-> UrlOf(storage_path), caption |-> caption, is_primary |-> is_primary,
     ai_generated_description |-> ai]

\* `stored` is whether the upload to storage succeeds, `outcome` what the
\* captioning call does
upload_property_image(cred, pid, caption, is_primary, filename, stored, outcome) ==
    LET g == SupabaseGuard(cred, now)
        db_user == UsersBySupabaseId(cred.sub)
        found == PropertyById(pid)
        prop == CHOOSE p \in found : TRUE
        id == nextImageId + 1
        storage_path == StoragePath(pid, filename)
        new_image == NewImage(id, pid, storage_path, caption, is_primary,
                              ai_description(outcome))
    IN  /\ IF g.status # HTTP_200_OK
             THEN /\ resp' = Response("upload_property_image", cred, pid, "", g)
                  /\ UNCHANGED db
           ELSE IF db_user = {}
             THEN /\ resp' = Response("upload_property_image", cred, pid, "",
                                Reply(HTTP_404_NOT_FOUND, "User not found in database"))
                  /\ UNCHANGED db
           ELSE IF found = {}
             THEN /\ resp' = Response("upload_property_image", cred, pid, "",
                                Reply(HTTP_404_NOT_FOUND, "Property not found"))
                  /\ UNCHANGED db
           ELSE IF ~Owns(prop, CHOOSE u \in db_user : TRUE)
             THEN /\ resp' = Response("upload_property_image", cred, pid, "",
                                Reply(HTTP_403_FORBIDDEN,
                                      "Not authorized to upload images for this property"))
                  /\ UNCHANGED db
           ELSE IF ~stored
             \* upload_file raises: nothing catches it
             THEN /\ resp' = Response("upload_property_image", cred, pid, "",
                                InternalServerError)
                  /\ UNCHANGED db
           ELSE /\ storage' = storage \cup {storage_path}
                /\ images' = (IF is_primary THEN SiblingsCleared(images, pid) ELSE images)
                             \cup {new_image}
                /\ nextImageId' = id
                /\ lastPrimaryUpload' =
                       IF is_primary THEN [lastPrimaryUpload EXCEPT ![pid] = id]
                       ELSE lastPrimaryUpload
                /\ resp' = Response("upload_property_image", cred, pid, "", Ok({id}))
                /\ UNCHANGED << voice_settings, users, properties, nextPropertyId >>
        /\ UNCHANGED << now, sess >>

(* PUT /users/{user_id} *)

UserIds == {"u1", "u2", "u9"}

update_user(cred, uid, data) ==
    LET g == SupabaseGuard(cred, now)
        found == UsersById(uid)
        user == CHOOSE u \in found : TRUE
    IN  /\ IF g.status # HTTP_200_OK
             THEN /\ resp' = Response("update_user", cred, 0, uid, g)
                  /\ UNCHANGED db
           ELSE IF found = {}
             THEN /\ resp' = Response("update_user", cred, 0, uid,
                                Reply(HTTP_404_NOT_FOUND, "User not found"))
                  /\ UNCHANGED db
           ELSE /\ users' = (users \ {user}) \cup
                       {Patched(user, data, {"full_name", "is_active"})}
                /\ resp' = Response("update_user", cred, 0, uid, Ok({uid}))
                /\ UNCHANGED << voice_settings, properties, images, nextPropertyId, nextImageId,
                                storage, lastPrimaryUpload >>
        /\ UNCHANGED << now, sess >>

(* GET /auth/me *)

get_current_user_info(cred) ==
    /\ resp' = Response("get_current_user_info", cred, 0, "", JwtGuard(cred, now))
    /\ UNCHANGED << db, now, sess >>

(* Time passes *)

Tick ==
    /\ now < MaxTime
    /\ now' = now + 1
    /\ UNCHANGED << db, resp, sess >>

----------------------------------------------------------------------------
(* Requests handled one at a time.  A specification names the credentials  *)
(* and bodies its requests carry; ids are handed out up to the bounds.      *)

\* Callers of the property endpoints: nobody, the two stored users, and a
\* valid Supabase identity without a row in "users"
Anonymous == NoCredentials

Caller(sub) == Token(SUPABASE_JWT_SECRET, sub, TRUE, MaxTime)

Callers == {Anonymous, Caller("sb1"), Caller("sb2"), Caller("sb9")}

Owners == {Caller("sb1"), Caller("sb2")}

CreateProperty(creds, bodies) ==
    /\ nextPropertyId < MaxProperties
    /\ \E c \in creds, d \in bodies : create_property(c, d)

GetProperties(creds) ==
    \E c \in creds, category \in ListCategories, skip \in 0..1, limit \in 1..MaxProperties :
        get_properties(c, category, skip, limit)

GetProperty(creds) == \E c \in creds, pid \in PropertyIds : get_property(c, pid)

UpdateProperty(creds, bodies) ==
    \E c \in creds, pid \in PropertyIds, d \in bodies : update_property(c, pid, d)

DeleteProperty(creds) == \E c \in creds, pid \in PropertyIds : delete_property(c, pid)

UploadPropertyImageWith(creds, captions, outcomes) ==
    /\ nextImageId < MaxImages
    /\ \E c \in creds, pid \in PropertyIds, caption \in captions,
          is_primary \in BOOLEAN, f \in Filenames, stored \in BOOLEAN,
          outcome \in outcomes :
          upload_property_image(c, pid, caption, is_primary, f, stored, outcome)

\* uploads without a caption, stored and described
UploadPropertyImage(creds) ==
    /\ nextImageId < MaxImages
    /\ \E c \in creds, pid \in PropertyIds, is_primary \in BOOLEAN, f \in Filenames :
          upload_property_image(c, pid, "", is_primary, f, TRUE,
                                "A bright living room.")

UpdateUser(creds) ==
    \E c \in creds, uid \in UserIds, d \in UserUpdates : update_user(c, uid, d)

GetCurrentUserInfo(creds) == \E c \in creds : get_current_user_info(c)

----------------------------------------------------------------------------
(* Spec: the property endpoints without images, every kind of caller *)

Next ==
    \/ CreateProperty(Callers, PropertyCreates)
    \/ GetProperties(Callers)
    \/ GetProperty(Callers)
    \/ UpdateProperty(Callers, PropertyUpdates)
    \/ DeleteProperty(Callers)

Spec == Init /\ [][Next]_vars

(* SpecImages: properties and their images, the stored users as callers *)

PublishedHouse == [category |-> "house", is_published |-> TRUE]

NextImages ==
    \/ CreateProperty(Owners, {PublishedHouse})
    \/ UploadPropertyImage(Owners)
    \/ DeleteProperty(Owners)

SpecImages == Init /\ [][NextImages]_vars

(* SpecOwnership: SpecImages and updates that unpublish *)

Unpublish == [fields |-> {"is_published"}, category |-> "", is_published |-> FALSE]

NextOwnership ==
    \/ CreateProperty(Owners, {PublishedHouse})
    \/ UploadPropertyImage(Owners)
    \/ UpdateProperty(Owners, {Unpublish})
    \/ DeleteProperty(Owners)

SpecOwnership == Init /\ [][NextOwnership]_vars

(* SpecAuth: the guards, with every credential, as time passes *)

NextAuth ==
    \/ CreateProperty(Credentials, {PublishedHouse})
    \/ UpdateUser(Credentials)
    \/ GetCurrentUserInfo(Credentials)
    \/ Tick

SpecAuth == Init /\ [][NextAuth]_vars

----------------------------------------------------------------------------
(* SpecConc: upload_property_image as the steps of concurrent sessions.    *)
(* Each request has its own AsyncSession (get_db); the engine's isolation   *)
(* level is the database's default, READ COMMITTED: a select sees what was  *)
(* committed when it runs, and the flush at commit writes the session's     *)
(* changed rows and its new row in one transaction.                         *)

InProgress == {s \in Sessions : sess[s].pc # "idle"}

\* properties.py 396-432: the guard, the user, the property, the ownership
\* check and the upload to storage
upload_begin(s, cred, pid, is_primary, filename) ==
    LET g == SupabaseGuard(cred, now)
        db_user == UsersBySupabaseId(cred.sub)
        found == PropertyById(pid)
        prop == CHOOSE p \in found : TRUE
        storage_path == StoragePath(pid, filename)
    IN  /\ sess[s].pc = "idle"
        /\ g.status = HTTP_200_OK
        /\ db_user # {}
        /\ found # {}
        /\ Owns(prop, CHOOSE u \in db_user : TRUE)
        /\ storage' = storage \cup {storage_path}
        /\ sess' = [sess EXCEPT ![s] =
                       [pc |-> "select", cred |-> cred, property_id |-> pid,
                        is_primary |-> is_primary, storage_path |-> storage_path,
                        existing_images |-> {}, dirty |-> {}]]
        /\ UNCHANGED << voice_settings, users, properties, images, nextPropertyId, nextImageId,
                        now, lastPrimaryUpload, resp >>

\* properties.py 442-447: select(PropertyImage).where(property_id == ...)
upload_select(s) ==
    /\ sess[s].pc = "select"
    /\ sess' = [sess EXCEPT ![s].pc = "clear",
                            ![s].existing_images =
                                IF sess[s].is_primary
                                THEN ImagesOf(sess[s].property_id) ELSE {}]
    /\ UNCHANGED << db, now, resp >>

\* properties.py 450-451: img.is_primary = False marks the loaded rows whose
\* flag changes; the session writes them when it flushes
upload_clear(s) ==
    /\ sess[s].pc = "clear"
    /\ sess' = [sess EXCEPT ![s].pc = "insert",
                            ![s].dirty =
                                {i.id : i \in {j \in sess[s].existing_images :
                                                  j.is_primary}}]
    /\ UNCHANGED << db, now, resp >>

\* properties.py 454-463: db.add(new_image)
upload_insert(s) ==
    /\ sess[s].pc = "insert"
    /\ sess' = [sess EXCEPT ![s].pc = "commit"]
    /\ UNCHANGED << db, now, resp >>

\* The flush: UPDATE property_images SET is_primary = false WHERE id = ... for
\* each changed row, then the INSERT
Flushed(rows, dirty, new_image) ==
    {IF i.id \in dirty THEN [i EXCEPT !.is_primary = FALSE] ELSE i : i \in rows}
    \cup {new_image}

\* properties.py 464-469: await db.commit()
upload_commit(s) ==
    LET id == nextImageId + 1
        new_image == NewImage(id, sess[s].property_id, sess[s].storage_path, "",
                              sess[s].is_primary,
                              ai_description("A bright living room."))
    IN  /\ sess[s].pc = "commit"
        /\ images' = Flushed(images, sess[s].dirty, new_image)
        /\ nextImageId' = id
        /\ lastPrimaryUpload' =
               IF sess[s].is_primary
               THEN [lastPrimaryUpload EXCEPT ![sess[s].property_id] = id]
               ELSE lastPrimaryUpload
        /\ resp' = Response("upload_property_image", sess[s].cred,
                            sess[s].property_id, "", Ok({id}))
        /\ sess' = [sess EXCEPT ![s] = IdleSession]
        /\ UNCHANGED << voice_settings, users, properties, nextPropertyId, storage, now >>

UploadBegin ==
    /\ nextImageId + Cardinality(InProgress) < MaxImages
    /\ \E s \in Sessions, c \in Owners, pid \in PropertyIds, is_primary \in BOOLEAN,
          f \in Filenames : upload_begin(s, c, pid, is_primary, f)

UploadSelect == \E s \in Sessions : upload_select(s)

UploadClear == \E s \in Sessions : upload_clear(s)

UploadInsert == \E s \in Sessions : upload_insert(s)

UploadCommit == \E s \in Sessions : upload_commit(s)

NextConc ==
    \/ CreateProperty(Owners, {PublishedHouse})
    \/ UploadBegin
    \/ UploadSelect
    \/ UploadClear
    \/ UploadInsert
    \/ UploadCommit

SpecConc == Init /\ [][NextConc]_vars

----------------------------------------------------------------------------
(* Local tokens (core/security.py).  The clock counts minutes.  The signing *)
(* secret is the one the deployment configures as settings.jwt_secret_key.  *)

MaxClock == 32

ACCESS_TOKEN_EXPIRE_MINUTES == 30

\* create_access_token({"sub": sub}) called at time t
create_access_token(sub, t) ==
    Token(jwt_secret_key, sub, TRUE, t + ACCESS_TOKEN_EXPIRE_MINUTES)

\* What verify_token returns for a token at time t: the payload (its sub), or
\* None (the empty set)
Payload(tok, t) == IF verify_token(tok, t) THEN {tok.sub} ELSE {}

\* The subjects tokens are issued for
TokenSubjects == {"u1", "u9"}

\* The tokens a caller can hold at time t: an access token issued for a
\* subject at some time up to t, or a token of the same content signed with
\* another key
HeldTokens(t) ==
    {create_access_token(x, t0) : x \in TokenSubjects, t0 \in 0..t}
    \cup {Token(OtherSecret, x, TRUE, t0 + ACCESS_TOKEN_EXPIRE_MINUTES) :
             x \in TokenSubjects, t0 \in 0..t}

IssueAccessToken ==
    /\ \E x \in TokenSubjects :
          resp' = Response("create_access_token", create_access_token(x, now),
                           0, "", Reply(0, ""))
    /\ UNCHANGED << db, now, sess >>

VerifyToken ==
    /\ \E tok \in HeldTokens(now) :
          resp' = Response("verify_token", tok, 0, "",
                           [status |-> 0, detail |-> "", body |-> Payload(tok, now)])
    /\ UNCHANGED << db, now, sess >>

\* A minute passes
Elapse ==
    /\ now < MaxClock
    /\ now' = now + 1
    /\ UNCHANGED << db, resp, sess >>

NextTokens ==
    \/ IssueAccessToken
    \/ VerifyToken
    \/ Elapse

SpecTokens == Init /\ [][NextTokens]_vars

----------------------------------------------------------------------------
(* Accounts: api/endpoints/auth.py register, login, google callback,       *)
(* refresh-token.  The user table starts empty (db/init_db.py adds no row). *)

HTTP_400_BAD_REQUEST == 400

REFRESH_TOKEN_EXPIRE_DAYS == 7

InitAccounts ==
    /\ users = {}
    /\ properties = {}
    /\ images = {}
    /\ nextPropertyId = 0
    /\ voice_settings = {}
    /\ nextImageId = 0
    /\ storage = {}
    /\ now = 0
    /\ lastPrimaryUpload = [p \in PropertyIds |-> 0]
    /\ resp = NoResponse
    /\ sess = [s \in Sessions |-> IdleSession]

\* The response to a request of the auth router, kept with the request's body
Responded(op, request, r) ==
    [op |-> op, cred |-> NoCredentials, time |-> now,
     property_id |-> 0, user_id |-> "",
     status |-> r.status, detail |-> r.detail, body |-> r.body,
     request |-> request]

\* create_refresh_token({"sub": sub}) called at time t
create_refresh_token(sub, t) ==
    [kind |-> "bearer", key |-> jwt_secret_key, sub |-> sub, has_exp |-> TRUE,
     exp |-> t + REFRESH_TOKEN_EXPIRE_DAYS * 24 * 60, token_type |-> "refresh"]

\* every token read as a refresh token
TokenTypeAlwaysRefresh(tok) == "refresh"

\* payload.get("token_type")
TokenType(tok) == IF "token_type" \in DOMAIN tok THEN tok.token_type ELSE ""

\* Token(access_token=..., refresh_token=..., token_type="bearer") for a user
TokenPair(user_id, t) ==
    Ok({[access_token |-> create_access_token(user_id, t),
         refresh_token |-> create_refresh_token(user_id, t)]})

\* The ids uuid4 hands out, in the order it hands them out
UserIdPool == << "u3", "u4", "u5" >>

FreshUserIds(rows) ==
    {k \in 1..Len(UserIdPool) : \A u \in rows : u.id # UserIdPool[k]}

FreshUserId(rows) ==
    UserIdPool[CHOOSE k \in FreshUserIds(rows) : \A j \in FreshUserIds(rows) : k <= j]

\* select(User).where(User.email == email) in a session whose view of the
\* table is `rows`
ByEmailNone(rows, email) == {}

ByEmail(rows, email) == {u \in rows : u.email = email}

UsersByEmail(email) == ByEmail(users, email)

\* models/user.py: email and google_id are unique columns; an INSERT or
\* UPDATE that would make two rows share a non-NULL value fails at commit.
NeverViolatesUnique(rows, row) == FALSE

ViolatesUnique(rows, row) ==
    \E u \in rows :
        /\ u.id # row.id
        /\ \/ u.email = row.email
           \/ (row.google_id # "" /\ u.google_id = row.google_id)

(* POST /auth/register *)

AccountEmails == {"cy@example.com", "dee@example.com"}

Passwords == {"pw1", "pw2"}

\* passlib bcrypt: a hash verifies exactly the password it was made from
get_password_hash(password) ==
    CASE password = "pw1" -> "$2b$pw1"
      [] password = "pw2" -> "$2b$pw2"

\* The fields of schemas/user.py UserCreate; any other field of the JSON
\* body is dropped by validation
UserCreateFields == {"email", "full_name", "is_active", "supabase_id"}

\* The JSON bodies sent to /auth/register: an email and a password, with or
\* without the supabase_id (""  when absent) that UserCreate requires
RegisterBodies ==
    [email : AccountEmails, password : Passwords, supabase_id : {"", "sb3"}]

\* User(email=..., hashed_password=..., full_name=..., auth_provider="email")
NewEmailUser(id, email, hashed_password) ==
    [id |-> id, email |-> email, supabase_id |-> "", full_name |-> "",
     is_active |-> TRUE, hashed_password |-> hashed_password,
     auth_provider |-> "email", google_id |-> "", created_at |-> now]

register_user(user_data) ==
    LET new_user == NewEmailUser(FreshUserId(users), user_data.email,
                                 get_password_hash(user_data.password))
    IN  /\ IF user_data.supabase_id = ""
             THEN /\ resp' = Responded("register_user", user_data, ValidationError)
                  /\ UNCHANGED db
           ELSE IF UsersByEmail(user_data.email) # {}
             THEN /\ resp' = Responded("register_user", user_data,
                                Reply(HTTP_400_BAD_REQUEST, "Email already registered"))
                  /\ UNCHANGED db
           ELSE IF "password" \notin UserCreateFields
             \* user_data.password: AttributeError
             THEN /\ resp' = Responded("register_user", user_data, InternalServerError)
                  /\ UNCHANGED db
           ELSE IF ViolatesUnique(users, new_user) \/ FreshUserIds(users) = {}
             THEN /\ resp' = Responded("register_user", user_data, InternalServerError)
                  /\ UNCHANGED db
           ELSE /\ users' = users \cup {new_user}
                /\ resp' = Responded("register_user", user_data,
                                     TokenPair(new_user.id, now))
                /\ UNCHANGED << voice_settings, properties, images, nextPropertyId, nextImageId,
                                storage, lastPrimaryUpload >>
        /\ UNCHANGED << now, sess >>

(* POST /auth/login *)

\* The usernames a login form carries: an account email, or an unknown one
\* a verification that accepts every password
verify_password_any(plain_password, hashed_password) == TRUE

\* core/security.py 78-89: pwd_context.verify on a bcrypt hash
verify_password(plain_password, hashed_password) ==
    hashed_password = get_password_hash(plain_password)

LoginForms == [email : AccountEmails \cup {"eve@example.com"}, password : Passwords]

login(form_data) ==
    LET found == UsersByEmail(form_data.email)
        user == CHOOSE u \in found : TRUE
    IN  /\ IF found = {}
             THEN resp' = Responded("login", form_data,
                              Reply(HTTP_401_UNAUTHORIZED, "Incorrect email or password"))
           ELSE IF user.hashed_password = ""
             \* pwd_context.verify(password, ""): UnknownHashError
             THEN resp' = Responded("login", form_data, InternalServerError)
           ELSE IF ~verify_password(form_data.password, user.hashed_password)
             THEN resp' = Responded("login", form_data,
                              Reply(HTTP_401_UNAUTHORIZED, "Incorrect email or password"))
           ELSE resp' = Responded("login", form_data, TokenPair(user.id, now))
        /\ UNCHANGED << db, now, sess >>

(* POST /auth/google/callback *)

GoogleSubs == {"g1", "g2"}

\* What Google returns for the request's code: the profile (sub and email),
\* or nothing (sub "") when the exchange fails
GoogleProfiles ==
    [sub : GoogleSubs, email : AccountEmails]
    \cup {[sub |-> "", email |-> ""]}

GoogleAuthFailed == Reply(HTTP_401_UNAUTHORIZED, "Google authentication failed")

\* A new user whose provider column is left to its default
NewGoogleUserDefaultProvider(id, user_info) ==
    [id |-> id, email |-> user_info.email, supabase_id |-> "", full_name |-> "",
     is_active |-> TRUE, hashed_password |-> "",
     auth_provider |-> "email", google_id |-> user_info.sub, created_at |-> now]

\* User(email=..., full_name=..., auth_provider="google", google_id=...)
NewGoogleUser(id, user_info) ==
    [id |-> id, email |-> user_info.email, supabase_id |-> "", full_name |-> "",
     is_active |-> TRUE, hashed_password |-> "",
     auth_provider |-> "google", google_id |-> user_info.sub, created_at |-> now]

\* The rest of google_callback once the lookup by email returned `found`,
\* against the table as it is when the handler commits
google_reconcile(user_info, found) ==
    LET new_user == NewGoogleUser(FreshUserId(users), user_info)
        user == CHOOSE u \in found : TRUE
        linked == [user EXCEPT !.google_id = user_info.sub,
                               !.auth_provider = "google"]
    IN  IF found = {}
          THEN IF ViolatesUnique(users, new_user) \/ FreshUserIds(users) = {}
                 THEN /\ resp' = Responded("google_callback", user_info, GoogleAuthFailed)
                      /\ UNCHANGED users
                 ELSE /\ users' = users \cup {new_user}
                      /\ resp' = Responded("google_callback", user_info,
                                           TokenPair(new_user.id, now))
        ELSE IF user.google_id = ""
          THEN IF ViolatesUnique(users, linked)
                 THEN /\ resp' = Responded("google_callback", user_info, GoogleAuthFailed)
                      /\ UNCHANGED users
                 ELSE /\ users' = {IF u.id = user.id
                                      THEN [u EXCEPT !.google_id = user_info.sub,
                                                     !.auth_provider = "google"]
                                      ELSE u : u \in users}
                      /\ resp' = Responded("google_callback", user_info,
                                           TokenPair(user.id, now))
        ELSE /\ resp' = Responded("google_callback", user_info,
                                  TokenPair(user.id, now))
             /\ UNCHANGED users

google_callback(user_info) ==
    /\ IF user_info.sub = ""
         THEN /\ resp' = Responded("google_callback", user_info, GoogleAuthFailed)
              /\ UNCHANGED users
         ELSE google_reconcile(user_info, UsersByEmail(user_info.email))
    /\ UNCHANGED << voice_settings, properties, images, nextPropertyId, nextImageId, storage,
                    lastPrimaryUpload, now, sess >>

(* POST /auth/refresh-token *)

\* The tokens a refresh request may carry: a refresh or an access token of an
\* id from the pool or of no user, and a refresh token signed with another key
RefreshRequests ==
    {create_refresh_token(x, 0) : x \in {"u3", "u4", "u9", ""}}
    \cup {create_access_token("u3", 0)}
    \cup {[create_refresh_token("u3", 0) EXCEPT !.key = OtherSecret]}
    \* issued seven days before the start: expires at 0
    \cup {create_refresh_token("u3", 0 - REFRESH_TOKEN_EXPIRE_DAYS * 24 * 60)}

refresh_token(request) ==
    /\ IF ~verify_token(request, now) \/ TokenType(request) # "refresh"
         THEN resp' = Responded("refresh_token", request,
                          Reply(HTTP_401_UNAUTHORIZED, "Invalid refresh token"))
       ELSE IF request.sub = ""
         THEN resp' = Responded("refresh_token", request,
                          Reply(HTTP_401_UNAUTHORIZED, "Invalid token payload"))
       ELSE IF UsersById(request.sub) = {}
         THEN resp' = Responded("refresh_token", request,
                          Reply(HTTP_404_NOT_FOUND, "User not found"))
       ELSE resp' = Responded("refresh_token", request, TokenPair(request.sub, now))
    /\ UNCHANGED << db, now, sess >>

(* The auth router and PUT /users/{user_id}, one request at a time *)

\* A user table holding one user who has a password
InitLogin ==
    /\ users = {[id |-> "u3", email |-> "cy@example.com", supabase_id |-> "",
                 full_name |-> "", is_active |-> TRUE,
                 hashed_password |-> get_password_hash("pw1"),
                 auth_provider |-> "email", google_id |-> "", created_at |-> 0]}
    /\ properties = {}
    /\ images = {}
    /\ nextPropertyId = 0
    /\ voice_settings = {}
    /\ nextImageId = 0
    /\ storage = {}
    /\ now = 0
    /\ lastPrimaryUpload = [p \in PropertyIds |-> 0]
    /\ resp = NoResponse
    /\ sess = [s \in Sessions |-> IdleSession]

RegisterUser == \E user_data \in RegisterBodies : register_user(user_data)

Login == \E form_data \in LoginForms : login(form_data)

GoogleCallback == \E user_info \in GoogleProfiles : google_callback(user_info)

RefreshToken == \E request \in RefreshRequests : refresh_token(request)

\* update_user for the ids the pool hands out
UpdateAccount ==
    \E uid \in {"u3", "u4"}, data \in UserUpdates : update_user(Caller("sb1"), uid, data)

NextAccounts ==
    \/ RegisterUser
    \/ Login
    \/ GoogleCallback
    \/ RefreshToken
    \/ UpdateAccount
    \/ Tick

SpecAccounts == InitAccounts /\ [][NextAccounts]_vars

SpecLogin == InitLogin /\ [][NextAccounts]_vars

----------------------------------------------------------------------------
(* Concurrent register and Google callback requests.  Each request runs in  *)
(* its own database session: the lookup by email is one step, the rest of   *)
(* the handler (insert or update, commit, response) another.                *)

register_select(s, user_data) ==
    /\ sess[s].pc = "idle"
    /\ user_data.supabase_id # ""
    /\ sess' = [sess EXCEPT ![s] = [pc |-> "register_selected",
                                    request |-> user_data,
                                    found |-> UsersByEmail(user_data.email)]]
    /\ UNCHANGED << db, now, resp >>

register_finish(s) ==
    LET user_data == sess[s].request
        new_user == NewEmailUser(FreshUserId(users), user_data.email,
                                 get_password_hash(user_data.password))
    IN  /\ sess[s].pc = "register_selected"
        /\ IF sess[s].found # {}
             THEN /\ resp' = Responded("register_user", user_data,
                                Reply(HTTP_400_BAD_REQUEST, "Email already registered"))
                  /\ UNCHANGED db
           ELSE IF "password" \notin UserCreateFields
             THEN /\ resp' = Responded("register_user", user_data, InternalServerError)
                  /\ UNCHANGED db
           ELSE IF ViolatesUnique(users, new_user) \/ FreshUserIds(users) = {}
             THEN /\ resp' = Responded("register_user", user_data, InternalServerError)
                  /\ UNCHANGED db
           ELSE /\ users' = users \cup {new_user}
                /\ resp' = Responded("register_user", user_data,
                                     TokenPair(new_user.id, now))
                /\ UNCHANGED << voice_settings, properties, images, nextPropertyId, nextImageId,
                                storage, lastPrimaryUpload >>
        /\ sess' = [sess EXCEPT ![s] = IdleSession]
        /\ UNCHANGED now

google_select(s, user_info) ==
    /\ sess[s].pc = "idle"
    /\ user_info.sub # ""
    /\ sess' = [sess EXCEPT ![s] = [pc |-> "google_selected",
                                    request |-> user_info,
                                    found |-> UsersByEmail(user_info.email)]]
    /\ UNCHANGED << db, now, resp >>

google_finish(s) ==
    /\ sess[s].pc = "google_selected"
    /\ google_reconcile(sess[s].request, sess[s].found)
    /\ sess' = [sess EXCEPT ![s] = IdleSession]
    /\ UNCHANGED << voice_settings, properties, images, nextPropertyId, nextImageId, storage,
                    lastPrimaryUpload, now >>

RegisterSelect ==
    \E s \in Sessions, user_data \in RegisterBodies : register_select(s, user_data)

RegisterFinish == \E s \in Sessions : register_finish(s)

GoogleSelect ==
    \E s \in Sessions, user_info \in GoogleProfiles : google_select(s, user_info)

GoogleFinish == \E s \in Sessions : google_finish(s)

NextAccountsConc ==
    \/ RegisterSelect
    \/ RegisterFinish
    \/ GoogleSelect
    \/ GoogleFinish

SpecAccountsConc == InitAccounts /\ [][NextAccountsConc]_vars

----------------------------------------------------------------------------
(* GET /properties/{property_id}/images *)

\* properties.py 510-522 with the check dropped
MayViewImagesAnyone(prop, cred) == TRUE

\* properties.py 510-522: the images of an unpublished property are refused
\* to a caller who is not its owner.  The guard has rejected a request
\* without credentials before the handler runs, so current_user is set.
MayViewImages(prop, cred) ==
    ~(~prop.is_published /\ cred.kind # "none")
    \/ \E u \in UsersBySupabaseId(cred.sub) : prop.user_id = u.id

\* .order_by(PropertyImage.is_primary.desc(), PropertyImage.created_at): the
\* ids of the rows, primary first, then in upload order (ids are handed out
\* in upload order)
RECURSIVE ImageIdsInOrder(_)
ImageIdsInOrder(rows) ==
    IF rows = {} THEN << >>
    ELSE LET first == CHOOSE i \in rows : \A j \in rows :
                          \/ (i.is_primary /\ ~j.is_primary)
                          \/ (i.is_primary = j.is_primary /\ i.id <= j.id)
         IN  << first.id >> \o ImageIdsInOrder(rows \ {first})

get_property_images(cred, pid) ==
    LET g == SupabaseGuard(cred, now)
        found == PropertyById(pid)
    IN  /\ IF g.status # HTTP_200_OK
             THEN resp' = Response("get_property_images", cred, pid, "", g)
           ELSE IF found = {}
             THEN resp' = Response("get_property_images", cred, pid, "",
                              Reply(HTTP_404_NOT_FOUND, "Property not found"))
           ELSE IF ~MayViewImages(CHOOSE p \in found : TRUE, cred)
             THEN resp' = Response("get_property_images", cred, pid, "",
                              Reply(HTTP_403_FORBIDDEN, "Property is not published"))
           ELSE resp' = Response("get_property_images", cred, pid, "",
                                 Ok(ImageIdsInOrder(ImagesOf(pid))))
        /\ UNCHANGED << db, now, sess >>

GetPropertyImages(creds) ==
    \E c \in creds, pid \in PropertyIds : get_property_images(c, pid)

DraftHouse == [category |-> "house", is_published |-> FALSE]

NextGallery ==
    \/ CreateProperty(Owners, {PublishedHouse, DraftHouse})
    \/ UploadPropertyImage(Owners)
    \/ GetPropertyImages(Callers)

SpecGallery == Init /\ [][NextGallery]_vars

----------------------------------------------------------------------------
(* Register, then use the property endpoints *)

\* property_update with only is_published set, to True
Publish == [fields |-> {"is_published"}, category |-> "", is_published |-> TRUE]

\* auth.py 151-159, 289-297: the access tokens in the reply the client has
\* just received from register or from the Google callback
ReturnedAccessTokens ==
    IF resp.op \in {"register_user", "google_callback"}
        THEN {pair.access_token : pair \in resp.body}
        ELSE {}

NextJourney ==
    \/ RegisterUser
    \/ GoogleCallback
    \/ CreateProperty(Owners \cup ReturnedAccessTokens, {DraftHouse})
    \/ UpdateProperty(Owners, {Publish})
    \/ GetProperty({Anonymous})

SpecJourney == Init /\ [][NextJourney]_vars

----------------------------------------------------------------------------
(* Category validation on create and update *)

CategoryCreates ==
    [category : {"Apartment", "Land", "spaceship"}, is_published : {TRUE}]

\* {"category": null}: the field is set, to None
NullCategory == [fields |-> {"category"}, category |-> "", is_published |-> FALSE]

CategoryUpdates ==
    {[fields |-> {"category"}, category |-> c, is_published |-> FALSE] :
        c \in {"Apartment", "house", "spaceship"}} \cup {NullCategory}

NextCategories ==
    \/ CreateProperty(Owners, CategoryCreates)
    \/ UpdateProperty(Owners, CategoryUpdates)

SpecCategories == Init /\ [][NextCategories]_vars

----------------------------------------------------------------------------
(* Partial update *)

NextUpdate ==
    \/ CreateProperty(Owners, {PublishedHouse, DraftHouse})
    \/ UploadPropertyImage({Caller("sb1")})
    \/ UpdateProperty(Owners, PropertyUpdates)

SpecUpdate == Init /\ [][NextUpdate]_vars

----------------------------------------------------------------------------
(* Delete and its cascade *)

NextDelete ==
    \/ CreateProperty(Owners, {PublishedHouse})
    \/ UploadPropertyImage(Owners)
    \/ DeleteProperty(Owners)
    \/ GetProperty(Owners)

SpecDelete == Init /\ [][NextDelete]_vars

----------------------------------------------------------------------------
(* Upload with a captioning call that may fail *)

Captions == {"", "Front view"}

NextCaption ==
    \/ CreateProperty({Caller("sb1")}, {PublishedHouse})
    \/ UploadPropertyImageWith(Owners, Captions, CaptioningOutcomes)

SpecCaption == Init /\ [][NextCaption]_vars

----------------------------------------------------------------------------
(* AI adapters: services/openai_service.py *)

\* What the call to the OpenAI client does: it raises one of the client's
\* errors, or it returns a response with this content.
ApiErrors == {"APIConnectionError", "APITimeoutError", "RateLimitError"}

Raises(error) == [kind |-> "raise", error |-> error, content |-> ""]

Content(c) == [kind |-> "content", error |-> "", content |-> c]

\* message.content of a vision response: None or a text
VisionContents ==
    {"None", "Title: Sunny Loft\nBright rooms.",
     "Sunny Loft \nBright rooms.\nNear the park.", "\nBright rooms."}

\* full_text.split("\n"), and of each line its split at the first colon
Lines(full_text) ==
    CASE full_text = "Title: Sunny Loft\nBright rooms." ->
             << << "Title", " Sunny Loft" >>, << "Bright rooms." >> >>
      [] full_text = "Sunny Loft \nBright rooms.\nNear the park." ->
             << << "Sunny Loft " >>, << "Bright rooms." >>, << "Near the park." >> >>
      [] full_text = "\nBright rooms." -> << << >>, << "Bright rooms." >> >>

\* str.strip() on the texts above
Strip(s) ==
    CASE s = " Sunny Loft" -> "Sunny Loft"
      [] s = "Sunny Loft " -> "Sunny Loft"
      [] OTHER -> s

\* What a call of an adapter ends in: a returned value or a raised error
Returned(value) == [status |-> 0, detail |-> "returned", body |-> value]

Raised(error) == [status |-> 0, detail |-> "raised", body |-> error]

Pending == [status |-> 0, detail |-> "pending", body |-> << >>]

CaptionFallback ==
    [title |-> "Property Listing", description |-> "No description available."]

\* openai_service.py 72-92: the title is the first line, after its first
\* colon if it has one; the description is the remaining lines
TitleAndDescription(full_text) ==
    LET lines == Lines(full_text)
    IN  IF lines[1] # << >>
          THEN [title |-> IF Len(lines[1]) > 1
                            THEN Strip(lines[1][2]) ELSE Strip(lines[1][1]),
                description |-> Tail(lines)]
          ELSE [title |-> "", description |-> lines]

\* generate_property_description without its try/except
generate_property_description_unguarded(image_url, outcome) ==
    IF outcome.kind = "raise" THEN Raised(outcome.error)
    ELSE IF outcome.content = "None" THEN Raised("AttributeError")
    ELSE Returned(TitleAndDescription(outcome.content))

generate_property_description(image_url, outcome) ==
    IF outcome.kind = "raise" \/ outcome.content = "None"
      THEN Returned(CaptionFallback)
      ELSE Returned(TitleAndDescription(outcome.content))

\* open(audio_file_path) raises for a missing file; otherwise the client
\* raises or returns response.text
transcribe_audio(audio_file_path, outcome) ==
    IF outcome.kind = "raise" THEN Returned("") ELSE Returned(outcome.content)

\* message.content of a command response: the text of a JSON object, or a
\* text that is not JSON
JsonTexts == {"{save_note}", "{search_properties}"}

\* json.loads(result) on a JSON text
JsonLoads(result) ==
    CASE result = "{save_note}" ->
             [intent |-> "save_note", parameters |-> << "note" >>, response |-> "Saved."]
      [] result = "{search_properties}" ->
             [intent |-> "search_properties", parameters |-> << >>,
              response |-> "Searching."]

CommandFallback ==
    [intent |-> "unknown", parameters |-> << >>,
     response |-> "I'm sorry, I couldn't process that command."]

process_voice_command(command_text, outcome) ==
    IF outcome.kind = "raise" \/ outcome.content \notin JsonTexts
      THEN Returned(CommandFallback)
      ELSE Returned(JsonLoads(outcome.content))

ImageUrls == {"https://img/1.jpg", "https://img/2.jpg", "https://img/3.jpg"}

AdapterCalls ==
    [op : {"generate_property_description"}, input : ImageUrls,
     outcome : {Raises(e) : e \in ApiErrors} \cup {Content(c) : c \in VisionContents}]
    \cup
    [op : {"transcribe_audio"}, input : {"/tmp/a.wav", "/tmp/b.wav", "/tmp/missing.wav"},
     outcome : {Raises(e) : e \in ApiErrors \cup {"FileNotFoundError"}}
               \cup {Content("schedule a viewing"), Content("")}]
    \cup
    [op : {"process_voice_command"}, input : {"save a note", "find houses", "mumble"},
     outcome : {Raises(e) : e \in ApiErrors} \cup {Content("not json")}
               \cup {Content(o) : o \in JsonTexts}]

InitAdapters ==
    /\ users = SeedUsers
    /\ properties = {}
    /\ images = {}
    /\ nextPropertyId = 0
    /\ voice_settings = {}
    /\ nextImageId = 0
    /\ storage = {}
    /\ now = 0
    /\ lastPrimaryUpload = [p \in PropertyIds |-> 0]
    /\ sess = [s \in Sessions |-> IdleSession]
    /\ \E call \in AdapterCalls : resp = Responded(call.op, call, Pending)

GeneratePropertyDescription ==
    /\ resp.op = "generate_property_description" /\ resp.detail = "pending"
    /\ resp' = Responded(resp.op, resp.request,
                  generate_property_description(resp.request.input, resp.request.outcome))
    /\ UNCHANGED << db, now, sess >>

TranscribeAudio ==
    /\ resp.op = "transcribe_audio" /\ resp.detail = "pending"
    /\ resp' = Responded(resp.op, resp.request,
                  transcribe_audio(resp.request.input, resp.request.outcome))
    /\ UNCHANGED << db, now, sess >>

ProcessVoiceCommand ==
    /\ resp.op = "process_voice_command" /\ resp.detail = "pending"
    /\ resp' = Responded(resp.op, resp.request,
                  process_voice_command(resp.request.input, resp.request.outcome))
    /\ UNCHANGED << db, now, sess >>

NextAdapters ==
    \/ GeneratePropertyDescription
    \/ TranscribeAudio
    \/ ProcessVoiceCommand

SpecAdapters == InitAdapters /\ [][NextAdapters]_vars

----------------------------------------------------------------------------
(* Voice settings: api/endpoints/voice.py *)

\* str.lower() on the voice types a request may carry
VoiceLower(s) ==
    CASE s = "Neutral" -> "neutral"
      [] OTHER -> s

allowed_types == {"male", "female", "neutral"}

\* schemas/voice_setting.py validate_voice_type
VoiceTypeAllowed(v) == VoiceLower(v) \in allowed_types

\* Field(ge=0.0, le=1.0) on the volumes a request may carry
VolumeInRange(v) == v \in {"0.0", "0.3", "0.7", "1.0"}

\* The column defaults of models/voice_setting.py 37-41, changed in the
\* wake word
VoiceSettingOtherDefaults(id, user_id) ==
    [id |-> id, user_id |-> user_id, wake_word |-> "Hey Rivo",
     voice_type |-> "female", voice_language |-> "en-US", is_enabled |-> TRUE,
     volume |-> "0.7"]

\* VoiceSetting(user_id=...): every other column takes its default
VoiceSettingDefaults(id, user_id) ==
    [id |-> id, user_id |-> user_id, wake_word |-> "Rivo Start",
     voice_type |-> "female", voice_language |-> "en-US", is_enabled |-> TRUE,
     volume |-> "0.7"]

\* VoiceSettingCreate bodies: of the fields, voice_type and volume vary
VoiceSettingCreates == [voice_type : {"male", "Neutral", "robot"}, volume : {"0.3", "1.5"}]

\* VoiceSettingUpdate bodies: `fields` are the fields the request sets
VoiceSettingUpdates ==
    {d \in [fields : SUBSET {"voice_type", "volume"},
            voice_type : {"male", "robot", ""}, volume : {"1.0", "1.5", ""}] :
        /\ ("voice_type" \in d.fields) = (d.voice_type # "")
        /\ ("volume" \in d.fields) = (d.volume # "")}

VoiceBodyValid(d) ==
    /\ d.voice_type # "" => VoiceTypeAllowed(d.voice_type)
    /\ d.volume # "" => VolumeInRange(d.volume)

SettingsOf(user_id) == {v \in voice_settings : v.user_id = user_id}

\* uuid.uuid4: an id no row has
FreshVoiceSettingId == Cardinality(voice_settings) + 1

\* The reply of a voice-settings request: no property, the settings row in
\* the body
VoiceResponse(op, cred, user_id, r) == Response(op, cred, 0, user_id, r)

\* the row with the fields a body sets written into it
WithVoiceFields(row, d, fieldNames) ==
    [f \in DOMAIN row |->
        IF f \in fieldNames
        THEN (IF f = "voice_type" THEN VoiceLower(d[f]) ELSE d[f])
        ELSE row[f]]

(* POST /voice/settings *)
create_voice_settings(cred, data) ==
    LET g == SupabaseGuard(cred, now)
        db_user == UsersBySupabaseId(cred.sub)
        user == CHOOSE u \in db_user : TRUE
        new_settings == WithVoiceFields(VoiceSettingDefaults(FreshVoiceSettingId, user.id),
                                        data, {"voice_type", "volume"})
    IN  /\ IF g.status # HTTP_200_OK
             THEN /\ resp' = VoiceResponse("create_voice_settings", cred, "", g)
                  /\ UNCHANGED db
           ELSE IF ~VoiceBodyValid(data)
             THEN /\ resp' = VoiceResponse("create_voice_settings", cred, "",
                                           ValidationError)
                  /\ UNCHANGED db
           ELSE IF db_user = {}
             THEN /\ resp' = VoiceResponse("create_voice_settings", cred, "",
                                Reply(HTTP_404_NOT_FOUND, "User not found in database"))
                  /\ UNCHANGED db
           ELSE IF SettingsOf(user.id) # {}
             THEN /\ \E existing_settings \in SettingsOf(user.id) :
                        resp' = VoiceResponse("create_voice_settings", cred, user.id,
                                              Ok({existing_settings}))
                  /\ UNCHANGED db
           ELSE /\ voice_settings' = voice_settings \cup {new_settings}
                /\ resp' = VoiceResponse("create_voice_settings", cred, user.id,
                                         Ok({new_settings}))
                /\ UNCHANGED << users, properties, images, nextPropertyId,
                                nextImageId, storage, lastPrimaryUpload >>
        /\ UNCHANGED << now, sess >>

(* GET /voice/settings *)
get_voice_settings(cred) ==
    LET g == SupabaseGuard(cred, now)
        db_user == UsersBySupabaseId(cred.sub)
        user == CHOOSE u \in db_user : TRUE
        settings == VoiceSettingDefaults(FreshVoiceSettingId, user.id)
    IN  /\ IF g.status # HTTP_200_OK
             THEN /\ resp' = VoiceResponse("get_voice_settings", cred, "", g)
                  /\ UNCHANGED db
           ELSE IF db_user = {}
             THEN /\ resp' = VoiceResponse("get_voice_settings", cred, "",
                                Reply(HTTP_404_NOT_FOUND, "User not found in database"))
                  /\ UNCHANGED db
           ELSE IF SettingsOf(user.id) # {}
             THEN /\ \E found \in SettingsOf(user.id) :
                        resp' = VoiceResponse("get_voice_settings", cred, user.id,
                                              Ok({found}))
                  /\ UNCHANGED db
           ELSE /\ voice_settings' = voice_settings \cup {settings}
                /\ resp' = VoiceResponse("get_voice_settings", cred, user.id,
                                         Ok({settings}))
                /\ UNCHANGED << users, properties, images, nextPropertyId,
                                nextImageId, storage, lastPrimaryUpload >>
        /\ UNCHANGED << now, sess >>

(* PUT /voice/settings *)
update_voice_settings(cred, data) ==
    LET g == SupabaseGuard(cred, now)
        db_user == UsersBySupabaseId(cred.sub)
        user == CHOOSE u \in db_user : TRUE
        new_settings == WithVoiceFields(VoiceSettingDefaults(FreshVoiceSettingId, user.id),
                                        data, data.fields)
    IN  /\ IF g.status # HTTP_200_OK
             THEN /\ resp' = VoiceResponse("update_voice_settings", cred, "", g)
                  /\ UNCHANGED db
           ELSE IF ~VoiceBodyValid(data)
             THEN /\ resp' = VoiceResponse("update_voice_settings", cred, "",
                                           ValidationError)
                  /\ UNCHANGED db
           ELSE IF db_user = {}
             THEN /\ resp' = VoiceResponse("update_voice_settings", cred, "",
                                Reply(HTTP_404_NOT_FOUND, "User not found in database"))
                  /\ UNCHANGED db
           ELSE IF SettingsOf(user.id) = {}
             THEN /\ voice_settings' = voice_settings \cup {new_settings}
                  /\ resp' = VoiceResponse("update_voice_settings", cred, user.id,
                                           Ok({new_settings}))
                  /\ UNCHANGED << users, properties, images, nextPropertyId,
                                  nextImageId, storage, lastPrimaryUpload >>
           ELSE \E settings \in SettingsOf(user.id) :
                  LET updated == WithVoiceFields(settings, data, data.fields)
                  IN  /\ voice_settings' = (voice_settings \ {settings}) \cup {updated}
                      /\ resp' = VoiceResponse("update_voice_settings", cred, user.id,
                                               Ok({updated}))
                      /\ UNCHANGED << users, properties, images, nextPropertyId,
                                      nextImageId, storage, lastPrimaryUpload >>
        /\ UNCHANGED << now, sess >>

CreateVoiceSettings(creds) ==
    \E c \in creds, d \in VoiceSettingCreates : create_voice_settings(c, d)

GetVoiceSettings(creds) == \E c \in creds : get_voice_settings(c)

UpdateVoiceSettings(creds) ==
    \E c \in creds, d \in VoiceSettingUpdates : update_voice_settings(c, d)

NextVoice ==
    \/ CreateVoiceSettings(Callers)
    \/ GetVoiceSettings(Callers)
    \/ UpdateVoiceSettings(Callers)

SpecVoice == Init /\ [][NextVoice]_vars

----------------------------------------------------------------------------
(* Concurrent voice-settings requests: each request runs in its own database
   session; its lookup and its insert or update with the commit are separate
   steps, and other requests may run between them. *)

\* The requests served concurrently: the operation and its body, written as
\* the fields it sets
VoiceRequests ==
    {[op |-> "get_voice_settings",
      data |-> [fields |-> {}, voice_type |-> "", volume |-> ""]],
     [op |-> "create_voice_settings",
      data |-> [fields |-> {"voice_type", "volume"}, voice_type |-> "male",
                volume |-> "0.3"]],
     [op |-> "update_voice_settings",
      data |-> [fields |-> {"volume"}, voice_type |-> "", volume |-> "1.0"]]}

\* voice.py 51-67, 109-127, 165-183: the guard, the user and the lookup of
\* the user's settings
voice_select(s, cred, request) ==
    LET g == SupabaseGuard(cred, now)
        db_user == UsersBySupabaseId(cred.sub)
        user == CHOOSE u \in db_user : TRUE
    IN  /\ sess[s].pc = "idle"
        /\ g.status = HTTP_200_OK
        /\ db_user # {}
        /\ \E found \in (IF SettingsOf(user.id) = {} THEN {{}}
                         ELSE {{v} : v \in SettingsOf(user.id)}) :
              sess' = [sess EXCEPT ![s] =
                          [pc |-> "selected", cred |-> cred, request |-> request,
                           user_id |-> user.id, found |-> found]]
        /\ UNCHANGED << db, now, resp >>

\* voice.py 69-85, 129-140, 185-213: with no row found insert one and
\* commit; with a row found return it, or write the fields and commit
voice_finish(s) ==
    LET request == sess[s].request
        user_id == sess[s].user_id
        new_settings == WithVoiceFields(VoiceSettingDefaults(FreshVoiceSettingId, user_id),
                                        request.data, request.data.fields)
    IN  /\ sess[s].pc = "selected"
        /\ IF sess[s].found = {}
             THEN /\ voice_settings' = voice_settings \cup {new_settings}
                  /\ resp' = VoiceResponse(request.op, sess[s].cred, user_id,
                                           Ok({new_settings}))
           ELSE IF request.op = "update_voice_settings"
             THEN LET settings == CHOOSE v \in sess[s].found : TRUE
                      updated == WithVoiceFields(settings, request.data,
                                                 request.data.fields)
                  IN  /\ voice_settings' =
                             {IF v.id = settings.id
                                THEN WithVoiceFields(v, request.data, request.data.fields)
                                ELSE v : v \in voice_settings}
                      /\ resp' = VoiceResponse(request.op, sess[s].cred, user_id,
                                               Ok({updated}))
           ELSE /\ resp' = VoiceResponse(request.op, sess[s].cred, user_id,
                                         Ok(sess[s].found))
                /\ UNCHANGED voice_settings
        /\ sess' = [sess EXCEPT ![s] = IdleSession]
        /\ UNCHANGED << users, properties, images, nextPropertyId, nextImageId,
                        storage, lastPrimaryUpload, now >>

\* concurrent requests of one user
VoiceSelect ==
    \E s \in Sessions, request \in VoiceRequests :
        voice_select(s, Caller("sb1"), request)

VoiceFinish == \E s \in Sessions : voice_finish(s)

NextVoiceConc ==
    \/ VoiceSelect
    \/ VoiceFinish

SpecVoiceConc == Init /\ [][NextVoiceConc]_vars

----------------------------------------------------------------------------
(* Issued tokens presented to GET /auth/me *)

\* The access and the refresh tokens in the reply the client has just
\* received
ReturnedTokens ==
    IF resp.op \in {"login", "google_callback", "refresh_token"}
        THEN UNION {{pair.access_token, pair.refresh_token} : pair \in resp.body}
        ELSE {}

NextTokenKinds ==
    \/ Login
    \/ GoogleCallback
    \/ RefreshToken
    \/ GetCurrentUserInfo(ReturnedTokens \cup {Anonymous})
    \/ Tick

SpecTokenKinds == InitAccounts /\ [][NextTokenKinds]_vars

----------------------------------------------------------------------------
(* Properties *)

\* The stored user a Supabase token's subject resolves to, as the property
\* handlers look it up
ResolvedUsers(cred) == {u \in users : cred.kind # "none" /\ u.supabase_id = cred.sub}

\* C1: under sequential requests (SpecImages), whatever uploads with
\* is_primary true or false and deletions completed, on whichever
\* properties, no property has more than one image flagged primary.
AtMostOnePrimary ==
    \A pid \in PropertyIds : Cardinality(PrimaryImagesOf(pid)) <= 1

\* C1 witness: a primary upload has just completed on a property that already
\* had an image, and the other property holds a primary image too.
AtMostOnePrimary_Witness ==
    /\ resp.op = "upload_property_image"
    /\ resp.status = HTTP_200_OK
    /\ \E new \in PrimaryImagesOf(resp.property_id) :
          /\ resp.body = {new.id}
          /\ \E old \in ImagesOf(resp.property_id) : old.id < new.id
    /\ \E pid \in PropertyIds :
          pid # resp.property_id /\ PrimaryImagesOf(pid) # {}

\* C2: with uploads running in concurrent sessions (SpecConc), no committed
\* state holds two images of one property that are both flagged primary.
NoTwoPrimariesCommitted ==
    \A i \in images, j \in images :
        (i.property_id = j.property_id /\ i.is_primary /\ j.is_primary) => i.id = j.id

\* C3: under sequential requests (SpecImages), the primary image of a
\* property is exactly the image created by its most recent is_primary=true
\* upload: none before the first such upload, and uploads with
\* is_primary=false in between do not change it.
PrimaryIsLatestPrimaryUpload ==
    \A p \in properties :
        IF lastPrimaryUpload[p.id] = 0
        THEN PrimaryImagesOf(p.id) = {}
        ELSE \E i \in ImagesOf(p.id) :
                /\ i.id = lastPrimaryUpload[p.id]
                /\ PrimaryImagesOf(p.id) = {i}

\* C3 witness: three uploads on one property, the second one primary, the
\* third one not: the second image is the primary one.
PrimaryIsLatestPrimaryUpload_Witness ==
    /\ resp.op = "upload_property_image"
    /\ resp.status = HTTP_200_OK
    /\ \E i1, i2, i3 \in ImagesOf(resp.property_id) :
          /\ i1.id < i2.id /\ i2.id < i3.id
          /\ resp.body = {i3.id}
          /\ ~i1.is_primary /\ i2.is_primary /\ ~i3.is_primary
          /\ lastPrimaryUpload[resp.property_id] = i2.id

\* C4: a get of an existing unpublished property answers 403 to a caller
\* without credentials, 403 to an authenticated caller who is not the owner,
\* and 200 with the property to the owner.
UnpublishedOnlyForOwner ==
    \A p \in properties :
        (resp.op = "get_property" /\ resp.property_id = p.id /\ ~p.is_published)
        => IF resp.cred.kind = "none"
             THEN resp.status = HTTP_403_FORBIDDEN
           ELSE IF \E u \in ResolvedUsers(resp.cred) : u.id = p.user_id
             THEN resp.status = HTTP_200_OK /\ resp.body = {p.id}
           ELSE resp.status = HTTP_403_FORBIDDEN

\* C4 witness: a stored user who is not the owner has asked for an
\* unpublished property and was refused.
UnpublishedOnlyForOwner_Witness ==
    \E p \in properties :
        /\ resp.op = "get_property" /\ resp.property_id = p.id
        /\ ~p.is_published
        /\ \E u \in ResolvedUsers(resp.cred) : u.id # p.user_id
        /\ resp.status = HTTP_403_FORBIDDEN
        /\ resp.detail = "Property is not published"

\* C5: every property a list request returns is published, whoever asks and
\* whatever the category filter, skip and limit.
ListOnlyPublished ==
    (resp.op = "get_properties" /\ resp.status = HTTP_200_OK)
    => \A id \in resp.body : \E p \in properties : p.id = id /\ p.is_published

\* C5 witness: a list request by a user who owns an unpublished property
\* returned some property, and not that one.
ListOnlyPublished_Witness ==
    /\ resp.op = "get_properties"
    /\ resp.status = HTTP_200_OK
    /\ resp.body # {}
    /\ \E p \in properties, u \in ResolvedUsers(resp.cred) :
          p.user_id = u.id /\ ~p.is_published /\ p.id \notin resp.body

\* C6: an update, delete or image upload on an existing property by an
\* authenticated caller who resolves to a user other than the owner answers
\* 403 and changes no property, no image and no stored file.
NonOwnerStep ==
    /\ resp'.op \in {"update_property", "delete_property", "upload_property_image"}
    /\ \E p \in properties, u \in ResolvedUsers(resp'.cred) :
          p.id = resp'.property_id /\ u.id # p.user_id

NonOwnerMutationForbidden ==
    [][NonOwnerStep =>
          /\ resp'.status = HTTP_403_FORBIDDEN
          /\ UNCHANGED << users, properties, images, nextPropertyId, nextImageId,
                          storage, lastPrimaryUpload >>]_vars

\* C6 witness: a user was refused an upload to another user's property that
\* holds a primary image; the property is still there, with its image.
NonOwnerMutationForbidden_Witness ==
    /\ resp.op = "upload_property_image"
    /\ resp.status = HTTP_403_FORBIDDEN
    /\ \E p \in properties, u \in ResolvedUsers(resp.cred) :
          /\ p.id = resp.property_id
          /\ u.id # p.user_id
          /\ PrimaryImagesOf(p.id) # {}

\* The secret a request's guard verifies the token with
GuardKey(op) ==
    IF op = "get_current_user_info" THEN jwt_secret_key ELSE SUPABASE_JWT_SECRET

\* A request without a bearer token, with a token whose signature does not
\* verify under the guard's secret, or with a token that expired before the
\* request was made
Unauthenticated(r) ==
    \/ r.cred.kind = "none"
    \/ r.cred.key # GuardKey(r.op)
    \/ (r.cred.has_exp /\ r.cred.exp < r.time)

\* The stored users the guard and handler of request r resolve its caller to
CallerOf(r) ==
    IF Unauthenticated(r) THEN {}
    ELSE IF r.op = "get_current_user_info" THEN UsersById(r.cred.sub)
    ELSE IF r.cred.has_exp THEN UsersBySupabaseId(r.cred.sub)
    ELSE {}

\* C7: update_user takes effect only for the user the caller resolves to; an
\* authenticated caller who updates another existing user's record is
\* answered 403.
UpdateUserOnlySelf ==
    (/\ resp.op = "update_user"
     /\ ~Unauthenticated(resp) /\ resp.cred.has_exp
     /\ UsersById(resp.user_id) # {}
     /\ \A u \in CallerOf(resp) : u.id # resp.user_id)
    => resp.status = HTTP_403_FORBIDDEN

\* C8: a request to an operation that requires identity, made without a
\* bearer token, with a token whose signature does not verify or with an
\* expired token, is answered 401.
UnauthenticatedIs401 ==
    (resp.op # "none" /\ Unauthenticated(resp))
    => resp.status = HTTP_401_UNAUTHORIZED

\* C9: a request whose caller resolves to a stored user with is_active=false
\* is answered 403 (a request by which a user updates their own record
\* aside, the record then read being the updated one).
InactiveCallerForbidden ==
    \A u \in CallerOf(resp) :
        (~u.is_active /\ ~(resp.op = "update_user" /\ resp.user_id = u.id))
        => resp.status = HTTP_403_FORBIDDEN

\* C10: GET /auth/me with a token that verifies answers 200 with the user of
\* the token's subject, and 404 with detail "User not found in database"
\* when no user has that id.
MeReturnsUserOrNotFoundInDatabase ==
    (resp.op = "get_current_user_info" /\ ~Unauthenticated(resp))
    => IF UsersById(resp.cred.sub) # {}
         THEN resp.status = HTTP_200_OK /\ resp.body = {resp.cred.sub}
         ELSE /\ resp.status = HTTP_404_NOT_FOUND
              /\ resp.detail = "User not found in database"

\* C11: for every subject x, verify_token applied at a time t to the access
\* token create_access_token issued for x at time t0 returns the payload with
\* sub = x while t is before t0 + 30 minutes and returns None once t is after
\* it; a token signed with another key is never accepted.
AccessTokenValidUntilExpiry ==
    resp.op = "verify_token" =>
        /\ \A x \in TokenSubjects, t0 \in 0..resp.time :
              resp.cred = create_access_token(x, t0) =>
                  /\ (resp.time < t0 + ACCESS_TOKEN_EXPIRE_MINUTES => resp.body = {x})
                  /\ (resp.time > t0 + ACCESS_TOKEN_EXPIRE_MINUTES => resp.body = {})
        /\ (resp.cred.key # jwt_secret_key => resp.body = {})

\* C11 witness: an access token issued by create_access_token was verified
\* after its expiry and refused.
AccessTokenValidUntilExpiry_Witness ==
    /\ resp.op = "verify_token"
    /\ \E x \in TokenSubjects, t0 \in 0..resp.time :
          /\ resp.cred = create_access_token(x, t0)
          /\ resp.time > t0 + ACCESS_TOKEN_EXPIRE_MINUTES
    /\ resp.body = {}

\* The user id a token response carries in its access token
TokenSubs(r) == {pair.access_token.sub : pair \in r.body}

\* C12: register with an email not yet registered and any password succeeds
\* and creates the user, and a login with that email and password succeeds
\* with an access token whose sub is the id of that user.
RegisterThenLoginResolves ==
    /\ (/\ resp.op = "register_user"
        /\ resp.request.supabase_id # ""
        /\ resp.status # HTTP_400_BAD_REQUEST)
       => /\ resp.status = HTTP_200_OK
          /\ \E u \in users :
                /\ u.email = resp.request.email
                /\ u.hashed_password = get_password_hash(resp.request.password)
                /\ TokenSubs(resp) = {u.id}
    /\ (/\ resp.op = "login"
        /\ \E u \in users :
              /\ u.email = resp.request.email
              /\ u.hashed_password = get_password_hash(resp.request.password))
       => /\ resp.status = HTTP_200_OK
          /\ \E u \in users : u.email = resp.request.email /\ TokenSubs(resp) = {u.id}

\* C13: a register request (one that passes body validation) whose email
\* already belongs to a user is answered 400 "Email already registered" with
\* no token, and leaves the user table as it was.
DuplicateEmailStep ==
    /\ resp'.op = "register_user"
    /\ resp'.request.supabase_id # ""
    /\ \E u \in users : u.email = resp'.request.email

DuplicateEmailRejected ==
    [][DuplicateEmailStep =>
          /\ resp'.status = HTTP_400_BAD_REQUEST
          /\ resp'.detail = "Email already registered"
          /\ resp'.body = {}
          /\ users' = users]_vars

\* C13 witness: a register request for the email of a user the Google
\* callback created was answered 400.
DuplicateEmailRejected_Witness ==
    /\ resp.op = "register_user"
    /\ resp.status = HTTP_400_BAD_REQUEST
    /\ \E u \in users : u.email = resp.request.email /\ u.auth_provider = "google"

\* C14: under any interleaving of concurrent register and Google callback
\* requests no two users have the same email; of two requests racing to
\* create one email at most one creates a user.
EmailsUnique ==
    \A u \in users, v \in users : u.email = v.email => u = v

\* C14 witness: two Google callbacks for one email both looked the email up
\* before either inserted; one created the user, the other was refused at
\* commit.
EmailsUnique_Witness ==
    /\ resp.op = "google_callback"
    /\ resp.status = HTTP_401_UNAUTHORIZED
    /\ resp.request.sub # ""
    /\ \E u \in users : u.email = resp.request.email /\ u.google_id = resp.request.sub

\* C15: a Google callback with the subject id and email of a user that an
\* earlier callback reconciled is answered with tokens for that same user,
\* changes no user, and leaves exactly one user with that email; every
\* callback that succeeds leaves exactly one user with the profile's email,
\* the one its tokens name.
GoogleRepeatStep ==
    /\ resp'.op = "google_callback"
    /\ \E u \in users :
          u.google_id = resp'.request.sub /\ u.email = resp'.request.email

GoogleCallbackIdempotent ==
    [][/\ GoogleRepeatStep =>
             /\ resp'.status = HTTP_200_OK
             /\ users' = users
             /\ \E u \in users :
                   /\ u.google_id = resp'.request.sub
                   /\ u.email = resp'.request.email
                   /\ TokenSubs(resp') = {u.id}
       /\ (resp'.op = "google_callback" /\ resp'.status = HTTP_200_OK) =>
             /\ Cardinality({u \in users' : u.email = resp'.request.email}) = 1
             /\ \E u \in users' :
                   u.email = resp'.request.email /\ TokenSubs(resp') = {u.id}
      ]_vars

\* C15 witness: with one user in the table, created by a Google callback, a
\* later callback with the same subject id and email was answered with
\* tokens for that user.
GoogleCallbackIdempotent_Witness ==
    /\ resp.op = "google_callback"
    /\ resp.status = HTTP_200_OK
    /\ Cardinality(users) = 1
    /\ \E u \in users :
          /\ u.google_id = resp.request.sub
          /\ u.email = resp.request.email
          /\ TokenSubs(resp) = {u.id}
          /\ u.created_at < resp.time

\* C16: a Google callback whose profile has the google_id of an existing
\* user and an email that belongs to no user succeeds with tokens that carry
\* the existing user's id, and creates no user.
GoogleSubjectFirst ==
    (/\ resp.op = "google_callback"
     /\ \E u \in users : u.google_id = resp.request.sub
     /\ \A u \in users : u.email # resp.request.email)
    => /\ resp.status = HTTP_200_OK
       /\ \E u \in users : u.google_id = resp.request.sub /\ TokenSubs(resp) = {u.id}

\* C17: every user whose auth_provider is "email" has a password hash; only
\* users of another provider have none.
EmailProviderHasPassword ==
    \A u \in users : u.auth_provider = "email" => u.hashed_password # ""

\* C17 witness: a user without a password hash exists, its provider is not
\* "email", and a register request for its email was refused.
EmailProviderHasPassword_Witness ==
    /\ resp.op = "register_user"
    /\ resp.status = HTTP_400_BAD_REQUEST
    /\ \E u \in users :
          /\ u.email = resp.request.email
          /\ u.hashed_password = ""
          /\ u.auth_provider # "email"

\* C19: a get of an existing published property answers 200 with the
\* property to every caller: one without credentials, the owner, and any
\* other authenticated caller.
PublishedForEveryCaller ==
    \A p \in properties :
        (/\ resp.op = "get_property" /\ resp.property_id = p.id
         /\ p.is_published
         /\ (resp.cred.kind = "none" \/ ~Unauthenticated(resp)))
        => resp.status = HTTP_200_OK /\ resp.body = {p.id}

\* C20: a request for the images of an existing unpublished property is
\* answered with the images to the owner only: 403 to an authenticated
\* caller who is not the owner and 403 to a caller without credentials.
ImagesOfUnpublishedOnlyForOwner ==
    \A p \in properties :
        (resp.op = "get_property_images" /\ resp.property_id = p.id /\ ~p.is_published)
        => IF resp.cred.kind # "none"
                /\ \E u \in ResolvedUsers(resp.cred) : u.id = p.user_id
             THEN /\ resp.status = HTTP_200_OK
                  /\ {resp.body[k] : k \in 1..Len(resp.body)}
                        = {i.id : i \in ImagesOf(p.id)}
             ELSE resp.status = HTTP_403_FORBIDDEN /\ resp.body = {}

\* C20 witness: an unpublished property has an image, and a stored user who
\* is not its owner asked for its images and was refused.
ImagesOfUnpublishedOnlyForOwner_Witness ==
    \E p \in properties :
        /\ resp.op = "get_property_images" /\ resp.property_id = p.id
        /\ ~p.is_published
        /\ ImagesOf(p.id) # {}
        /\ \E u \in ResolvedUsers(resp.cred) : u.id # p.user_id
        /\ resp.status = HTTP_403_FORBIDDEN
        /\ resp.detail = "Property is not published"

\* C18: the end-to-end sequence holds step by step.  Registering a new
\* e-mail answers 200, stores the user and returns tokens for that user; a
\* create with is_published false by a stored user presenting an access
\* token the API returned answers 200 and stores the property unpublished
\* with that user as owner; a get without credentials of an unpublished
\* property answers 403; the owner's update to is_published true answers 200
\* and publishes; a get without credentials of a published property answers
\* 200 with the property.
RegisterCreatePublishGet ==
    /\ (/\ resp.op = "register_user"
        /\ resp.request.supabase_id # ""
        /\ resp.status # HTTP_400_BAD_REQUEST)
       => /\ resp.status = HTTP_200_OK
          /\ \E u \in users :
                u.email = resp.request.email /\ TokenSubs(resp) = {u.id}
    /\ (/\ resp.op = "create_property"
        /\ resp.cred.key = jwt_secret_key
        /\ \E u \in users : u.id = resp.cred.sub)
       => /\ resp.status = HTTP_200_OK
          /\ \E p \in properties :
                /\ resp.body = {p.id}
                /\ p.user_id = resp.cred.sub
                /\ ~p.is_published
    /\ \A p \in properties :
          /\ (/\ resp.op = "update_property" /\ resp.property_id = p.id
              /\ \E u \in ResolvedUsers(resp.cred) : u.id = p.user_id)
             => resp.status = HTTP_200_OK /\ p.is_published
          /\ (/\ resp.op = "get_property" /\ resp.property_id = p.id
              /\ resp.cred.kind = "none")
             => IF p.is_published
                  THEN resp.status = HTTP_200_OK /\ resp.body = {p.id}
                  ELSE resp.status = HTTP_403_FORBIDDEN

\* C21: after every create and update every stored property's category is
\* in the fixed lowercase set; a create or an owner's update with category
\* "Apartment" stores "apartment"; a create or update with category
\* "spaceship" is answered with a validation error and changes no state.
CategoryStep ==
    /\ \A p \in properties' : p.category \in allowed_categories
    /\ \A c \in Owners, d \in CategoryCreates :
          create_property(c, d) =>
              CASE d.category = "Apartment" ->
                      /\ resp'.status = HTTP_200_OK
                      /\ \E p \in properties' \ properties :
                            resp'.body = {p.id} /\ p.category = "apartment"
                [] d.category = "spaceship" ->
                      resp'.status = ValidationError.status /\ UNCHANGED db
                [] OTHER -> TRUE
    /\ \A c \in Owners, d \in CategoryUpdates, p \in properties :
          (update_property(c, p.id, d) /\ p.user_id \in {u.id : u \in ResolvedUsers(c)}) =>
              CASE d.category = "Apartment" ->
                      /\ resp'.status = HTTP_200_OK
                      /\ \E q \in properties' : q.id = p.id /\ q.category = "apartment"
                [] d.category = "spaceship" ->
                      resp'.status = ValidationError.status /\ UNCHANGED db
                [] OTHER -> TRUE

CategoryAlwaysInFixedSet == [][CategoryStep]_vars

\* C21 witness: a property stored with category "land" was updated by its
\* owner to "Apartment" and holds "apartment", while another property exists.
CategoryAlwaysInFixedSet_Witness ==
    /\ resp.op = "update_property" /\ resp.status = HTTP_200_OK
    /\ \E p \in properties :
          /\ p.id = resp.property_id /\ p.category = "apartment"
          /\ \E q \in properties : q.id # p.id /\ q.category = "land"

\* C22: an update of an existing property by its owner with a valid partial
\* input answers 200 and overwrites exactly the fields the input sets: the
\* row keeps its id, its owner id and every field the input does not set,
\* and every other property, every image and every user is unchanged.  No
\* update, whoever sends it, changes the id or the owner id of a property.
UpdateFrameStep ==
    /\ resp'.op = "update_property"
       => {<< p.id, p.user_id >> : p \in properties'}
             = {<< p.id, p.user_id >> : p \in properties}
    /\ \A d \in PropertyUpdates, p \in properties :
          (/\ resp'.op = "update_property" /\ resp'.property_id = p.id
           /\ \E u \in ResolvedUsers(resp'.cred) : u.id = p.user_id
           /\ update_property(resp'.cred, p.id, d)
           /\ ("category" \in d.fields => Lower(d.category) \in allowed_categories))
          => /\ resp'.status = HTTP_200_OK
             /\ \E q \in properties' :
                   /\ q.id = p.id
                   /\ q.user_id = p.user_id
                   /\ q.category = (IF "category" \in d.fields
                                      THEN Lower(d.category) ELSE p.category)
                   /\ q.is_published = (IF "is_published" \in d.fields
                                          THEN d.is_published ELSE p.is_published)
                   /\ properties' \ {q} = properties \ {p}
             /\ UNCHANGED << users, images, storage >>

DeleteStep ==
    /\ \A i \in images' : \E p \in properties' : p.id = i.property_id
    /\ \A p \in properties :
          (/\ resp'.op = "delete_property" /\ resp'.property_id = p.id
           /\ \E u \in ResolvedUsers(resp'.cred) : u.id = p.user_id)
          => /\ resp'.status = HTTP_204_NO_CONTENT
             /\ properties' = properties \ {p}
             /\ images' = {i \in images : i.property_id # p.id}
             /\ users' = users
    /\ (/\ resp'.op = "get_property"
        /\ resp'.property_id \in 1..nextPropertyId
        /\ \E u \in ResolvedUsers(resp'.cred) : TRUE
        /\ \A p \in properties : p.id # resp'.property_id)
       => /\ resp'.status = HTTP_404_NOT_FOUND
          /\ resp'.detail = "Property not found"

DeleteRemovesPropertyAndItsImages == [][DeleteStep]_vars

\* C23 witness: a property with images was deleted by its owner while
\* another property with an image remains, and a get of the deleted id was
\* answered 404.
DeleteRemovesPropertyAndItsImages_Witness ==
    /\ resp.op = "get_property" /\ resp.status = HTTP_404_NOT_FOUND
    /\ resp.property_id \in 1..nextPropertyId
    /\ \E f \in storage : f = StoragePath(resp.property_id, CHOOSE n \in Filenames : TRUE)
    /\ \E p \in properties : ImagesOf(p.id) # {}

\* C24: an upload by the owner whose file is stored and whose captioning
\* call fails answers 200 and persists the new image with the storage path,
\* the URL, the caption and the primary flag of the request and with no
\* AI-generated description; the other images of the property are left as
\* an upload whose captioning succeeds leaves them: cleared of the primary
\* flag if the new image is primary, untouched otherwise.
CaptioningFailureStep ==
    \A p \in properties, caption \in Captions, is_primary \in BOOLEAN, f \in Filenames :
        (/\ resp'.op = "upload_property_image" /\ resp'.property_id = p.id
         /\ \E u \in ResolvedUsers(resp'.cred) : u.id = p.user_id
         /\ upload_property_image(resp'.cred, p.id, caption, is_primary, f, TRUE, "raise"))
        => /\ resp'.status = HTTP_200_OK
           /\ \E i \in images' :
                 /\ resp'.body = {i.id} /\ i.id \notin {j.id : j \in images}
                 /\ i.property_id = p.id
                 /\ i.storage_path = << "properties", p.id, f >>
                 /\ i.url = UrlOf(i.storage_path)
                 /\ i.caption = caption
                 /\ i.is_primary = is_primary
                 /\ i.ai_generated_description = ""
                 /\ images' \ {i} =
                       {IF is_primary /\ j.property_id = p.id
                          THEN [j EXCEPT !.is_primary = FALSE] ELSE j : j \in images}
           /\ properties' = properties

UploadToleratesCaptioningFailure == [][CaptioningFailureStep]_vars

\* C24 witness: a property's primary image was uploaded with a captioning
\* failure and a caption, after an earlier described image that was primary.
UploadToleratesCaptioningFailure_Witness ==
    /\ resp.op = "upload_property_image" /\ resp.status = HTTP_200_OK
    /\ \E i, j \in images :
          /\ resp.body = {i.id}
          /\ i.is_primary /\ i.caption = "Front view"
          /\ i.ai_generated_description = ""
          /\ j.property_id = i.property_id /\ j.id < i.id
          /\ j.ai_generated_description # "" /\ ~j.is_primary
          /\ lastPrimaryUpload[i.property_id] = i.id

\* C25: no adapter call ends in a raised error, and a call whose external
\* call failed returns the adapter's fixed fallback: the pair ("Property
\* Listing", "No description available.") from the captioning adapter, the
\* empty string from transcription, and the object with intent "unknown"
\* and no parameters from the command parser.
AdaptersFailSoft ==
    (resp.op \in {"generate_property_description", "transcribe_audio",
                  "process_voice_command"} /\ resp.detail # "pending")
    => /\ resp.detail = "returned"
       /\ resp.request.outcome.kind = "raise"
          => CASE resp.op = "generate_property_description" ->
                    /\ resp.body.title = "Property Listing"
                    /\ resp.body.description = "No description available."
               [] resp.op = "transcribe_audio" -> resp.body = ""
               [] resp.op = "process_voice_command" ->
                    resp.body.intent = "unknown" /\ resp.body.parameters = << >>

\* C25 witness: the captioning adapter returned its fallback after a rate
\* limit error.
AdaptersFailSoft_Witness ==
    /\ resp.op = "generate_property_description" /\ resp.detail = "returned"
    /\ resp.request.outcome = Raises("RateLimitError")
    /\ resp.body = CaptionFallback

\* C26: a read of the voice settings by a stored user who has none answers
\* 200, inserts exactly one row for that user holding the defaults (wake
\* word "Rivo Start", voice type female, language en-US, enabled, volume
\* 0.7) and returns that row; a read by a user who has a row returns that
\* row and leaves the table as it was.
VoiceReadStep ==
    \A u \in users :
        (resp'.op = "get_voice_settings" /\ u \in ResolvedUsers(resp'.cred))
        => /\ resp'.status = HTTP_200_OK
           /\ IF SettingsOf(u.id) = {}
                THEN \E row \in voice_settings' :
                        /\ voice_settings' = voice_settings \cup {row}
                        /\ row \notin voice_settings
                        /\ row.id \notin {v.id : v \in voice_settings}
                        /\ row.user_id = u.id
                        /\ row.wake_word = "Rivo Start"
                        /\ row.voice_type = "female"
                        /\ row.voice_language = "en-US"
                        /\ row.is_enabled
                        /\ row.volume = "0.7"
                        /\ resp'.body = {row}
                ELSE /\ voice_settings' = voice_settings
                     /\ resp'.body = SettingsOf(u.id)
           /\ Cardinality({v \in voice_settings' : v.user_id = u.id}) = 1

FirstReadCreatesDefaultVoiceSettings == [][VoiceReadStep]_vars

\* C26 witness: a read returned a user's default row, created while another
\* user already had settings of their own.
FirstReadCreatesDefaultVoiceSettings_Witness ==
    /\ resp.op = "get_voice_settings" /\ resp.status = HTTP_200_OK
    /\ \E row \in voice_settings :
          /\ resp.body = {row}
          /\ row = VoiceSettingDefaults(2, resp.user_id)
          /\ \E other \in voice_settings :
                other.id = 1 /\ other.user_id # row.user_id /\ other.voice_type = "neutral"

\* C27: under any interleaving of concurrent create, read and update
\* voice-settings requests no user has more than one voice-settings row.
AtMostOneVoiceSettingPerUser ==
    \A u \in users : Cardinality(SettingsOf(u.id)) <= 1

\* C28: a refresh request is answered with a new token pair exactly when its
\* token is signed with the application's key, is not expired, carries
\* token_type "refresh" and names an existing user; the new access and
\* refresh tokens carry the same sub as the presented token.  A token that is
\* wrongly signed, expired, not tagged "refresh" or without a sub is answered
\* 401, one that names no user 404, and in both cases no token is issued.
RefreshOnlyForValidRefreshToken ==
    resp.op = "refresh_token"
    => LET tok == resp.request
           valid == /\ tok.key = jwt_secret_key
                    /\ tok.exp >= resp.time
                    /\ "token_type" \in DOMAIN tok /\ tok.token_type = "refresh"
                    /\ tok.sub # ""
       IN  IF valid /\ \E u \in users : u.id = tok.sub
             THEN /\ resp.status = HTTP_200_OK
                  /\ \E pair \in resp.body :
                        /\ resp.body = {pair}
                        /\ pair.access_token.sub = tok.sub
                        /\ pair.refresh_token.sub = tok.sub
                        /\ pair.refresh_token.token_type = "refresh"
                        /\ "token_type" \notin DOMAIN pair.access_token
             ELSE /\ resp.body = {}
                  /\ resp.status = IF valid THEN HTTP_404_NOT_FOUND
                                   ELSE HTTP_401_UNAUTHORIZED

\* C28 witness: after time has passed, the refresh token of a user the
\* Google callback created was exchanged for a new pair.
RefreshOnlyForValidRefreshToken_Witness ==
    /\ resp.op = "refresh_token" /\ resp.status = HTTP_200_OK
    /\ resp.time > 0
    /\ \E u \in users : u.auth_provider = "google" /\ TokenSubs(resp) = {u.id}

\* C29: a login is answered with tokens only if a user with the given email
\* exists and the password verifies against that user's stored hash, and
\* then the tokens are for that user; a login for a user whose hash is null
\* is answered without tokens whatever the password; a login, failed or
\* not, changes no stored data.
LoginStep ==
    resp'.op = "login"
    => /\ UNCHANGED db
       /\ resp'.body # {}
          => \E u \in users :
                /\ u.email = resp'.request.email
                /\ u.hashed_password # ""
                /\ u.hashed_password = get_password_hash(resp'.request.password)
                /\ TokenSubs(resp') = {u.id}
       /\ (\E u \in users : u.email = resp'.request.email /\ u.hashed_password = "")
          => resp'.body = {} /\ resp'.status # HTTP_200_OK

LoginOnlyWithVerifiedPassword == [][LoginStep]_vars

\* C29 witness: a login for a user the Google callback created, who has no
\* hash, was answered without tokens, while the user with a password is
\* stored too.
LoginOnlyWithVerifiedPassword_Witness ==
    /\ resp.op = "login" /\ resp.body = {}
    /\ \E u, v \in users :
          /\ u.email = resp.request.email
          /\ u.hashed_password = "" /\ u.auth_provider = "google"
          /\ v.hashed_password = get_password_hash("pw1")

\* C30: a request to GET /auth/me that presents a token tagged token_type
\* "refresh" is not answered 200: the guard accepts access tokens only.
RefreshTokenNeverAuthenticates ==
    (resp.op = "get_current_user_info" /\ TokenType(resp.cred) = "refresh")
    => resp.status # HTTP_200_OK

============================================================================
